---- MODULE Spec2Model ----
(***************************************************************************)
(* Chunked streaming transcription pipeline of gemini-transcribe:          *)
(*   - time utilities and the transcript merger (lib/utils/audio.ts)       *)
(*   - the segment planner, the segment processor (processChunk) and the   *)
(*     pipeline orchestrator (POST) of the upload endpoint                 *)
(*                                                                         *)
(* A "mm:ss" timestamp string is modelled as the pair <<mm, ss>> of the    *)
(* two numbers its text holds; the ss field of a string that did not come  *)
(* out of formatTime may be 60 or more.                                    *)
(***************************************************************************)
EXTENDS Integers, Sequences, FiniteSets, TLC

Max(a, b) == IF a >= b THEN a ELSE b
Min(a, b) == IF a <= b THEN a ELSE b
Abs(a) == IF a >= 0 THEN a ELSE 0 - a

\* ------------------------------------------------------------ constants
CHUNK_DURATION == 120
CHUNK_OVERLAP == 60

\* ------------------------------------------------------------ time utilities
formatTimeNoModulo(seconds) == <<seconds \div 60, seconds>>

\* formatTime(seconds): minutes = floor(seconds / 60), seconds % 60, as mm:ss.
formatTime(seconds) == <<seconds \div 60, seconds % 60>>

\* parseTimeToSeconds(timestamp): minutes * 60 + seconds of the split text.
parseTimeToSeconds(timestamp) == timestamp[1] * 60 + timestamp[2]

\* ------------------------------------------------------------ segment planner
\* The window of loop value `time`: start = max(0, time - overlap) and
\* duration = min(windowLength + overlap, duration - start).
chunkStartTimeOf(t, ovl) == Max(0, t - ovl)

chunkDurationNoOverlap(t, dur, len, ovl) ==
    Min(len, dur - chunkStartTimeOf(t, ovl))

chunkDurationOf(t, dur, len, ovl) ==
    Min(len + ovl, dur - chunkStartTimeOf(t, ovl))

\* ------------------------------------------------------------ transcript merger
\* `Speaker ${currentSpeakerIndex}`
SpeakerNames == <<"Speaker 1", "Speaker 2", "Speaker 3", "Speaker 4", "Speaker 5", "Speaker 6">>

SpeakerLabel(k) == SpeakerNames[k]

Flatten(windows) ==
    LET RECURSIVE flat(_)
        flat(i) == IF i > Len(windows) THEN <<>> ELSE windows[i] \o flat(i + 1)
    IN flat(1)

buildSpeakerMapCountingAll(windows) ==
    LET all == Flatten(windows)
        RECURSIVE scan(_, _)
        scan(i, map) ==
            IF i > Len(all) THEN map
            ELSE IF all[i].speaker \in DOMAIN map
                 THEN scan(i + 1, map)
                 ELSE scan(i + 1, map @@ (all[i].speaker :> SpeakerLabel(i)))
    IN scan(1, [l \in {} |-> ""])

\* First pass: speakerMap.set(entry.speaker, `Speaker ${currentSpeakerIndex++}`)
\* for every label the map does not have yet, chunks in order, entries in order.
buildSpeakerMap(windows) ==
    LET all == Flatten(windows)
        RECURSIVE scan(_, _, _)
        scan(i, map, currentSpeakerIndex) ==
            IF i > Len(all) THEN map
            ELSE IF all[i].speaker \in DOMAIN map
                 THEN scan(i + 1, map, currentSpeakerIndex)
                 ELSE scan(i + 1,
                           map @@ (all[i].speaker :> SpeakerLabel(currentSpeakerIndex)),
                           currentSpeakerIndex + 1)
    IN scan(1, [l \in {} |-> ""], 1)

isDuplicateInclusive(merged, adjustedTime, speaker, text) ==
    \E k \in 1..Len(merged) :
        /\ Abs(parseTimeToSeconds(merged[k].timestamp) - adjustedTime) <= 5
        /\ merged[k].speaker = speaker
        /\ merged[k].text = text

\* merged.some(existing => |parse(existing.timestamp) - adjustedTime| < 5 &&
\*   existing.speaker === speakerMap.get(entry.speaker) && existing.text === entry.text)
isDuplicate(merged, adjustedTime, speaker, text) ==
    \E k \in 1..Len(merged) :
        /\ Abs(parseTimeToSeconds(merged[k].timestamp) - adjustedTime) < 5
        /\ merged[k].speaker = speaker
        /\ merged[k].text = text

\* Second pass: the list `merged` before the final sort.
mergeUnsorted(windows, starts) ==
    LET speakerMap == buildSpeakerMap(windows)
        RECURSIVE loop(_, _, _)
        loop(i, j, merged) ==
            IF i > Len(windows) THEN merged
            ELSE IF j > Len(windows[i]) THEN loop(i + 1, 1, merged)
            ELSE LET entry == windows[i][j]
                     adjustedTime == parseTimeToSeconds(entry.timestamp) + starts[i]
                 IN IF isDuplicate(merged, adjustedTime, speakerMap[entry.speaker], entry.text)
                    THEN loop(i, j + 1, merged)
                    ELSE loop(i, j + 1,
                              Append(merged, [timestamp |-> formatTime(adjustedTime),
                                              speaker |-> speakerMap[entry.speaker],
                                              text |-> entry.text]))
    IN loop(1, 1, <<>>)

sortByTimestampUnstable(list) ==
    LET key(e) == parseTimeToSeconds(e.timestamp)
        RECURSIVE insert(_, _)
        insert(e, sorted) ==
            IF sorted = <<>> THEN <<e>>
            ELSE IF key(Head(sorted)) < key(e)
                 THEN <<Head(sorted)>> \o insert(e, Tail(sorted))
                 ELSE <<e>> \o sorted
        RECURSIVE run(_, _)
        run(i, sorted) ==
            IF i > Len(list) THEN sorted ELSE run(i + 1, insert(list[i], sorted))
    IN run(1, <<>>)

\* Array.prototype.sort with (a, b) => parse(a.timestamp) - parse(b.timestamp):
\* a stable sort, ascending.
sortByTimestamp(list) ==
    LET key(e) == parseTimeToSeconds(e.timestamp)
        RECURSIVE insert(_, _)
        insert(e, sorted) ==
            IF sorted = <<>> THEN <<e>>
            ELSE IF key(Head(sorted)) <= key(e)
                 THEN <<Head(sorted)>> \o insert(e, Tail(sorted))
                 ELSE <<e>> \o sorted
        RECURSIVE run(_, _)
        run(i, sorted) ==
            IF i > Len(list) THEN sorted ELSE run(i + 1, insert(list[i], sorted))
    IN run(1, <<>>)

mergeTranscripts(windows, starts) ==
    sortByTimestamp(mergeUnsorted(windows, starts))

\* ------------------------------------------------------------ request parsing
\* A form field's text is the sequence of its characters.
DigitValue ==
    [c \in {"0", "1", "2", "3", "4", "5", "6", "7", "8", "9"} |->
        CASE c = "0" -> 0 [] c = "1" -> 1 [] c = "2" -> 2 [] c = "3" -> 3 [] c = "4" -> 4
          [] c = "5" -> 5 [] c = "6" -> 6 [] c = "7" -> 7 [] c = "8" -> 8 [] c = "9" -> 9]

\* parseInt(text, 10): an optional sign, then the longest run of digits; NaN
\* when there is no digit. A number is [nan, val].
parseInt(text) ==
    LET negative == Len(text) > 0 /\ text[1] = "-"
        signed == Len(text) > 0 /\ text[1] \in {"-", "+"}
        body == IF signed THEN Tail(text) ELSE text
        RECURSIVE digits(_, _)
        digits(i, acc) ==
            IF i <= Len(body) /\ body[i] \in DOMAIN DigitValue
            THEN digits(i + 1, acc * 10 + DigitValue[body[i]])
            ELSE acc
    IN IF Len(body) = 0 \/ body[1] \notin DOMAIN DigitValue
       THEN [nan |-> TRUE, val |-> 0]
       ELSE [nan |-> FALSE, val |-> IF negative THEN 0 - digits(1, 0) ELSE digits(1, 0)]

\* const initialStartTime = startTime ? parseInt(startTime as string, 10) : 0
initialStartTimeOf(field) ==
    IF field.present /\ field.text /= <<>>
    THEN parseInt(field.text)
    ELSE [nan |-> FALSE, val |-> 0]

\* time < duration, false for NaN
loopCondition(t, dur) == ~t.nan /\ t.val < dur

\* The windows the loop of POST visits from initialStartTime.
plannedWindows(initial, dur) ==
    LET RECURSIVE from(_)
        from(t) ==
            IF ~loopCondition(t, dur) THEN <<>>
            ELSE << [start |-> chunkStartTimeOf(t.val, CHUNK_OVERLAP),
                     duration |-> chunkDurationOf(t.val, dur, CHUNK_DURATION, CHUNK_OVERLAP)] >>
                 \o from([t EXCEPT !.val = @ + CHUNK_DURATION])
    IN from(initial)

\* ------------------------------------------------------------ segment processor
SafetyMessage == "This segment was skipped due to content safety filters. The transcription will continue with the next segment."
RateLimitMessage == "Rate limit reached. Waiting before retrying."

\* An error is the step that raised it and what its message contains.
NoError == [step |-> "none", hasSAFETY |-> FALSE, has429 |-> FALSE, hasTooManyRequests |-> FALSE]

NoResult == [kind |-> "none", entries |-> <<>>, error |-> NoError]

adjustEntriesNoClamp(parsed, start, len) ==
    [i \in 1..Len(parsed) |->
        [parsed[i] EXCEPT !.timestamp = formatTime(parseTimeToSeconds(@) + start)]]

\* parsedTranscript.map: the entry's time shifted by the window start and
\* clamped to the window end, formatted again.
adjustEntries(parsed, start, len) ==
    [i \in 1..Len(parsed) |->
        [parsed[i] EXCEPT !.timestamp =
            formatTime(Min(parseTimeToSeconds(@) + start, start + len))]]

processChunkCatchSafetyOnly(error, start) ==
    IF error.hasSAFETY
    THEN [kind |-> "return",
          entries |-> <<[timestamp |-> formatTime(start), speaker |-> "System",
                         text |-> SafetyMessage]>>,
          error |-> NoError]
    ELSE [kind |-> "throw", entries |-> <<>>, error |-> error]

\* The catch block of processChunk.
processChunkCatch(error, start) ==
    IF error.hasSAFETY \/ error.has429
    THEN [kind |-> "return",
          entries |-> <<[timestamp |-> formatTime(start), speaker |-> "System",
                         text |-> IF error.hasSAFETY THEN SafetyMessage ELSE RateLimitMessage]>>,
          error |-> NoError]
    ELSE [kind |-> "throw", entries |-> <<>>, error |-> error]

\* ------------------------------------------------------------ orchestrator records
HardRateLimitMessage == "Rate limit reached. Waiting before continuing."
HardErrorMessage == "Error processing segment. Will retry shortly."

\* chunkTranscript[0]?.speaker === 'System'
firstSpeakerIsSystem(chunkTranscript) ==
    Len(chunkTranscript) > 0 /\ chunkTranscript[1].speaker = "System"

\* chunkData; an absent retryAfter is the empty set. processedTimestamp, the
\* wall clock of the emission, is left out.
chunkDataOf(start, chunkDur, dur, chunkTranscript) ==
    [startTime |-> start,
     endTime |-> start + chunkDur,
     totalDuration |-> dur,
     status |-> IF firstSpeakerIsSystem(chunkTranscript) THEN "error" ELSE "success",
     retryCount |-> 0,
     retryAfter |-> {},
     entries |-> chunkTranscript]

\* error.message?.includes('429') || error.message?.includes('Too Many Requests')
isRateLimit(error) == error.has429 \/ error.hasTooManyRequests

errorDelayOf(error) == IF isRateLimit(error) THEN 15000 ELSE 5000

\* errorData
errorDataOf(start, chunkDur, dur, error) ==
    [startTime |-> start,
     endTime |-> start + chunkDur,
     totalDuration |-> dur,
     status |-> "error",
     retryCount |-> 0,
     retryAfter |-> {errorDelayOf(error)},
     entries |-> <<[timestamp |-> formatTime(start), speaker |-> "System",
                    text |-> IF isRateLimit(error) THEN HardRateLimitMessage
                             ELSE HardErrorMessage]>>]

enqueueUnlessError(queue, record) ==
    IF record.retryAfter /= {} THEN queue ELSE Append(queue, record)

\* controller.enqueue(encoder.encode(JSON.stringify(record) + '\n'))
enqueue(queue, record) == Append(queue, record)

\* ------------------------------------------------------------ client page
getSecondsFromTimestamp(timestamp) == timestamp[1] * 60 + timestamp[2]

\* text.includes('Rate limit'), over the texts an entry of a record can carry.
includesRateLimit(text) == text \in {RateLimitMessage, HardRateLimitMessage}

\* Number.prototype.toString of a whole number >= 0: its decimal digits.
toString(n) ==
    LET digit == <<"0", "1", "2", "3", "4", "5", "6", "7", "8", "9">>
        RECURSIVE digits(_)
        digits(k) ==
            IF k < 10 THEN <<digit[k + 1]>>
            ELSE digits(k \div 10) \o <<digit[(k % 10) + 1]>>
    IN digits(n)

\* processedChunks.sort((a, b) => a.start - b.start): stable, ascending.
sortByStart(list) ==
    LET RECURSIVE insert(_, _)
        insert(e, sorted) ==
            IF sorted = <<>> THEN <<e>>
            ELSE IF Head(sorted).start <= e.start
                 THEN <<Head(sorted)>> \o insert(e, Tail(sorted))
                 ELSE <<e>> \o sorted
        RECURSIVE run(_, _)
        run(i, sorted) ==
            IF i > Len(list) THEN sorted ELSE run(i + 1, insert(list[i], sorted))
    IN run(1, <<>>)

\* The three marks checkForGaps and updateProcessedDuration assign.
Marks(interrupted, timestamp, seconds) ==
    [transcriptionInterrupted |-> interrupted,
     lastProcessedTimestamp |-> timestamp,
     processedDuration |-> seconds]

checkForGapsUnsorted(list, marks) ==
    IF Len(list) < 2 THEN [processedChunks |-> list, marks |-> marks]
    ELSE LET RECURSIVE loop(_, _)
             loop(i, m) ==
                 IF i > Len(list) THEN m
                 ELSE IF list[i].start - list[i - 1].end > 5
                      THEN loop(i + 1, Marks(TRUE, formatTime(list[i - 1].end), list[i - 1].end))
                      ELSE loop(i + 1, m)
         IN [processedChunks |-> list, marks |-> loop(2, marks)]

\* checkForGaps: nothing below two spans; else sort in place and, at every
\* pair of neighbours more than 5 s apart, assign the three marks.
checkForGaps(list, marks) ==
    IF Len(list) < 2 THEN [processedChunks |-> list, marks |-> marks]
    ELSE LET sorted == sortByStart(list)
             RECURSIVE loop(_, _)
             loop(i, m) ==
                 IF i > Len(sorted) THEN m
                 ELSE IF sorted[i].start - sorted[i - 1].end > 5
                      THEN loop(i + 1, Marks(TRUE, formatTime(sorted[i - 1].end),
                                             sorted[i - 1].end))
                      ELSE loop(i + 1, m)
         IN [processedChunks |-> sorted, marks |-> loop(2, marks)]

updateProcessedDuration(timestamp, marks) ==
    IF getSecondsFromTimestamp(timestamp) > marks.processedDuration
    THEN [marks EXCEPT !.processedDuration = getSecondsFromTimestamp(timestamp),
                       !.lastProcessedTimestamp = timestamp]
    ELSE marks

\* chunkTranscript.entries.filter(...): drop an entry after the total duration
\* and an entry that has, in transcriptArray, an entry less than 2 s away with
\* the same speaker and text.
newEntriesOf(entries, existingEntries, dur) ==
    SelectSeq(entries, LAMBDA entry :
        /\ ~(getSecondsFromTimestamp(entry.timestamp) > dur)
        /\ ~\E k \in 1..Len(existingEntries) :
              /\ Abs(getSecondsFromTimestamp(existingEntries[k].timestamp)
                     - getSecondsFromTimestamp(entry.timestamp)) < 2
              /\ existingEntries[k].speaker = entry.speaker
              /\ existingEntries[k].text = entry.text)

\* const retryDelay = isRateLimit ? 15000 : 5000
retryDelayOf(record) ==
    IF Len(record.entries) > 0 /\ includesRateLimit(record.entries[1].text)
    THEN 15000 ELSE 5000

\* ------------------------------------------------------------ bounds
MaxPlanDuration == 14
MaxWindowLength == 4
MaxMergeEntries == 3
MaxMergeChunks == 2
MaxDuration == 300
MaxCalls == 2
MaxSpans == 2
MaxRuns == 2

\* ------------------------------------------------------------ state
VARIABLES
    planDuration,      \* planner run: total duration
    planWindowLength,  \* planner run: window length (stride)
    planOverlap,       \* planner run: overlap
    planTime,          \* planner run: the loop variable `time`
    planWindows,       \* planner run: windows produced so far
    planPc             \* planner run: "loop" | "done"

planVars == <<planDuration, planWindowLength, planOverlap, planTime, planWindows, planPc>>

VARIABLES
    mergeChunks,       \* merger run: the argument `chunks`
    mergeStarts,       \* merger run: the argument `chunkStartTimes`
    mergeMap,          \* merger run: `speakerMap` of the last call
    mergeMerged,       \* merger run: `merged` of the last call, before the sort
    mergeOut,          \* merger run: what the call on the arguments returned
    mergeOutTwice,     \* merger run: what the call on the arguments given twice returned
    mergePc            \* merger run: "input" | "merged" | "remerged"

mergeVars == <<mergeChunks, mergeStarts, mergeMap, mergeMerged, mergeOut, mergeOutTwice, mergePc>>

VARIABLES
    file,              \* request: whether the form holds a file
    startTime,         \* request: the form field startTime, [present, text]
    pc,                \* POST: where the handler stands
    response,          \* POST: status of the HTTP response, 0 before it is returned
    tempFileHandle,    \* POST: the input temporary file, "none" | "open" | "cleaned"
    duration,          \* POST: total audio duration
    initialStartTime,  \* POST: parsed resume offset
    time,              \* POST: the loop variable
    chunkStartTime,    \* POST: start of the window being processed
    chunkDuration,     \* POST: duration of the window being processed
    chunks,            \* POST: accumulated transcripts
    chunkStartTimes,   \* POST: accumulated window starts
    stream,            \* output stream: the records enqueued so far
    streamState,       \* output stream: "none" | "open" | "closed" | "errored"
    closeCount,        \* output stream: number of controller.close() calls
    delayMs,           \* POST: the delay being waited, in milliseconds
    cpc,               \* processChunk: where the call stands
    chunkFileHandle,   \* processChunk: the segment temporary file
    uploadedFileState, \* processChunk: state of the uploaded file
    caught,            \* processChunk: the error its catch block received
    parsedTranscript,  \* processChunk: the backend's answer after JSON.parse
    result             \* processChunk: what the call returned or threw

postVars == <<file, startTime, pc, response, tempFileHandle, duration, initialStartTime,
              time, chunkStartTime, chunkDuration, chunks, chunkStartTimes, stream,
              streamState, closeCount, delayMs>>

chunkVars == <<cpc, chunkFileHandle, uploadedFileState, caught, parsedTranscript, result>>

VARIABLES
    selectedFile,             \* page: whether a file is selected
    uploadComplete,           \* page
    isUploading,              \* page
    processedDuration,        \* page: the high-water mark, in seconds
    lastProcessedTimestamp,   \* page: the high-water mark, as mm:ss
    transcriptionInterrupted, \* page
    clientDuration,           \* page: `duration`, the total duration learnt from a record
    transcriptArray,          \* page: the displayed transcript
    processedChunks,          \* page: the spans of the records consumed
    samplePending,            \* page: calls of useSample waiting for the sample file
    calls,                    \* page: the calls of handleSubmit that have not returned
    runs                      \* server: the handler runs of the requests received

clientVars == <<selectedFile, uploadComplete, isUploading, processedDuration,
                lastProcessedTimestamp, transcriptionInterrupted, clientDuration,
                transcriptArray, processedChunks, samplePending, calls>>

systemVars == <<clientVars, runs>>

vars == <<planVars, mergeVars, postVars, chunkVars, systemVars>>

\* ------------------------------------------------------------ planner run
\* The for loop of POST with its two constants as parameters, resume offset 0.
PlanInputs ==
    { <<d, w, o>> \in (0..MaxPlanDuration) \X (1..MaxWindowLength) \X (0..MaxWindowLength) : o < w }
    \cup { <<d, CHUNK_DURATION, CHUNK_OVERLAP>> : d \in {0, 100, 120, 130, 300, 301} }

MergeIdle ==
    /\ mergeChunks = <<>>
    /\ mergeStarts = <<>>
    /\ mergeMap = [l \in {} |-> ""]
    /\ mergeMerged = <<>>
    /\ mergeOut = <<>>
    /\ mergeOutTwice = <<>>
    /\ mergePc = "input"

ClientIdle ==
    /\ selectedFile = FALSE
    /\ uploadComplete = FALSE
    /\ isUploading = FALSE
    /\ processedDuration = 0
    /\ lastProcessedTimestamp = <<0, 0>>
    /\ transcriptionInterrupted = FALSE
    /\ clientDuration = 0
    /\ transcriptArray = <<>>
    /\ processedChunks = <<>>
    /\ samplePending = 0
    /\ calls = <<>>
    /\ runs = <<>>

PostIdle ==
    /\ file = FALSE
    /\ startTime = [present |-> FALSE, text |-> <<>>]
    /\ pc = "done"
    /\ response = 0
    /\ tempFileHandle = "none"
    /\ duration = 0
    /\ initialStartTime = [nan |-> FALSE, val |-> 0]
    /\ time = [nan |-> FALSE, val |-> 0]
    /\ chunkStartTime = 0
    /\ chunkDuration = 0
    /\ chunks = <<>>
    /\ chunkStartTimes = <<>>
    /\ stream = <<>>
    /\ streamState = "none"
    /\ closeCount = 0
    /\ delayMs = 0
    /\ cpc = "idle"
    /\ chunkFileHandle = "none"
    /\ uploadedFileState = "none"
    /\ caught = NoError
    /\ parsedTranscript = <<>>
    /\ result = NoResult

PlanInit ==
    /\ MergeIdle
    /\ PostIdle
    /\ ClientIdle
    /\ \E in \in PlanInputs :
        /\ planDuration = in[1]
        /\ planWindowLength = in[2]
        /\ planOverlap = in[3]
    /\ planTime = 0
    /\ planWindows = <<>>
    /\ planPc = "loop"

PlanIdle ==
    /\ planDuration = 0
    /\ planWindowLength = CHUNK_DURATION
    /\ planOverlap = CHUNK_OVERLAP
    /\ planTime = 0
    /\ planWindows = <<>>
    /\ planPc = "done"

\* One iteration: time < duration, emit the window, time += windowLength.
PlanStep ==
    /\ planPc = "loop"
    /\ planTime < planDuration
    /\ planWindows' = Append(planWindows,
          [start |-> chunkStartTimeOf(planTime, planOverlap),
           duration |-> chunkDurationOf(planTime, planDuration, planWindowLength, planOverlap)])
    /\ planTime' = planTime + planWindowLength
    /\ UNCHANGED <<planDuration, planWindowLength, planOverlap, planPc>>
    /\ UNCHANGED <<mergeVars, postVars, chunkVars, systemVars>>

\* Loop exit: time >= duration.
PlanDone ==
    /\ planPc = "loop"
    /\ ~(planTime < planDuration)
    /\ planPc' = "done"
    /\ UNCHANGED <<planDuration, planWindowLength, planOverlap, planTime, planWindows>>
    /\ UNCHANGED <<mergeVars, postVars, chunkVars, systemVars>>

PlanNext == PlanStep \/ PlanDone

SpecPlan == PlanInit /\ [][PlanNext]_vars

\* ------------------------------------------------------------ upload request
\* What a request's startTime field may hold.
StartTimeFields ==
    { [present |-> FALSE, text |-> <<>>] }
    \cup { [present |-> TRUE, text |-> t] :
             t \in { <<"0">>, <<"-", "1">>, <<"1", "3", "0">>, <<"x">> } }

\* What ffprobe may report (metadata.format.duration || 0).
Durations == { 0, 130, MaxDuration }

\* What the backend's answer may parse to: timestamps relative to the segment.
ParsedTranscripts ==
    { <<>>,
      << [timestamp |-> <<0, 10>>, speaker |-> "Speaker 1", text |-> "hello"] >>,
      << [timestamp |-> <<5, 0>>, speaker |-> "Speaker 1", text |-> "hello"] >>,
      << [timestamp |-> <<0, 10>>, speaker |-> "System", text |-> "hello"],
         [timestamp |-> <<0, 20>>, speaker |-> "Speaker 1", text |-> "world"] >> }

\* The errors a step that calls out of the repository may raise.
ErrorsAt(step) ==
    [step : {step}, hasSAFETY : BOOLEAN, has429 : BOOLEAN, hasTooManyRequests : BOOLEAN]

Init ==
    /\ PlanIdle
    /\ MergeIdle
    /\ ClientIdle
    /\ file \in BOOLEAN
    /\ startTime \in StartTimeFields
    /\ pc = "entry"
    /\ response = 0
    /\ tempFileHandle = "none"
    /\ duration = 0
    /\ initialStartTime = [nan |-> FALSE, val |-> 0]
    /\ time = [nan |-> FALSE, val |-> 0]
    /\ chunkStartTime = 0
    /\ chunkDuration = 0
    /\ chunks = <<>>
    /\ chunkStartTimes = <<>>
    /\ stream = <<>>
    /\ streamState = "none"
    /\ closeCount = 0
    /\ delayMs = 0
    /\ cpc = "idle"
    /\ chunkFileHandle = "none"
    /\ uploadedFileState = "none"
    /\ caught = NoError
    /\ parsedTranscript = <<>>
    /\ result = NoResult

\* if (!file) return new Response('No file provided', { status: 400 })
RejectNoFile ==
    /\ pc = "entry"
    /\ ~file
    /\ response' = 400
    /\ pc' = "done"
    /\ UNCHANGED <<file, startTime, tempFileHandle, duration, initialStartTime, time,
                   chunkStartTime, chunkDuration, chunks, chunkStartTimes, stream,
                   streamState, closeCount, delayMs>>
    /\ UNCHANGED <<systemVars, planVars, mergeVars, chunkVars>>

\* tempFileHandle = await tempFile(...)
CreateInputFile ==
    /\ pc = "entry"
    /\ file
    /\ tempFileHandle' = "open"
    /\ pc' = "probe"
    /\ UNCHANGED <<file, startTime, response, duration, initialStartTime, time,
                   chunkStartTime, chunkDuration, chunks, chunkStartTimes, stream,
                   streamState, closeCount, delayMs>>
    /\ UNCHANGED <<systemVars, planVars, mergeVars, chunkVars>>

\* tempFile(...) rejects: the outer catch answers 500.
CreateInputFileFails ==
    /\ pc = "entry"
    /\ file
    /\ response' = 500
    /\ pc' = "done"
    /\ UNCHANGED <<file, startTime, tempFileHandle, duration, initialStartTime, time,
                   chunkStartTime, chunkDuration, chunks, chunkStartTimes, stream,
                   streamState, closeCount, delayMs>>
    /\ UNCHANGED <<systemVars, planVars, mergeVars, chunkVars>>

\* writeFile or getAudioDuration rejects: the outer catch answers 500 and does
\* not clean the input file up.
ProbeFails ==
    /\ pc = "probe"
    /\ response' = 500
    /\ pc' = "done"
    /\ UNCHANGED <<file, startTime, tempFileHandle, duration, initialStartTime, time,
                   chunkStartTime, chunkDuration, chunks, chunkStartTimes, stream,
                   streamState, closeCount, delayMs>>
    /\ UNCHANGED <<systemVars, planVars, mergeVars, chunkVars>>

\* duration = await getAudioDuration(...); initialStartTime; new ReadableStream;
\* return new Response(stream).
Probe ==
    /\ pc = "probe"
    /\ \E d \in Durations : duration' = d
    /\ initialStartTime' = initialStartTimeOf(startTime)
    /\ streamState' = "open"
    /\ response' = 200
    /\ pc' = "setup"
    /\ UNCHANGED <<file, startTime, tempFileHandle, time, chunkStartTime, chunkDuration,
                   chunks, chunkStartTimes, stream, closeCount, delayMs>>
    /\ UNCHANGED <<systemVars, planVars, mergeVars, chunkVars>>

\* start(controller): the file manager and the model are built, the loop starts
\* at time = initialStartTime.
SetupClients ==
    /\ pc = "setup"
    /\ time' = initialStartTime
    /\ pc' = "loop"
    /\ UNCHANGED <<file, startTime, response, tempFileHandle, duration, initialStartTime,
                   chunkStartTime, chunkDuration, chunks, chunkStartTimes, stream,
                   streamState, closeCount, delayMs>>
    /\ UNCHANGED <<systemVars, planVars, mergeVars, chunkVars>>

\* Building the clients throws: catch (error) { controller.error(error) }.
SetupClientsFails ==
    /\ pc = "setup"
    /\ streamState' = "errored"
    /\ pc' = "cleanup"
    /\ UNCHANGED <<file, startTime, response, tempFileHandle, duration, initialStartTime,
                   time, chunkStartTime, chunkDuration, chunks, chunkStartTimes, stream,
                   closeCount, delayMs>>
    /\ UNCHANGED <<systemVars, planVars, mergeVars, chunkVars>>

\* Loop test true: the window of `time`, and the call of processChunk.
StartWindow ==
    /\ pc = "loop"
    /\ loopCondition(time, duration)
    /\ chunkStartTime' = chunkStartTimeOf(time.val, CHUNK_OVERLAP)
    /\ chunkDuration' = chunkDurationOf(time.val, duration, CHUNK_DURATION, CHUNK_OVERLAP)
    /\ pc' = "await"
    /\ cpc' = "tempfile"
    /\ chunkFileHandle' = "none"
    /\ uploadedFileState' = "none"
    /\ caught' = NoError
    /\ parsedTranscript' = <<>>
    /\ result' = NoResult
    /\ UNCHANGED <<file, startTime, response, tempFileHandle, duration, initialStartTime,
                   time, chunks, chunkStartTimes, stream, streamState, closeCount, delayMs>>
    /\ UNCHANGED <<systemVars, planVars, mergeVars>>

\* Loop test false: controller.close().
CloseStream ==
    /\ pc = "loop"
    /\ ~loopCondition(time, duration)
    /\ streamState' = "closed"
    /\ closeCount' = closeCount + 1
    /\ pc' = "cleanup"
    /\ UNCHANGED <<file, startTime, response, tempFileHandle, duration, initialStartTime,
                   time, chunkStartTime, chunkDuration, chunks, chunkStartTimes, stream,
                   delayMs>>
    /\ UNCHANGED <<systemVars, planVars, mergeVars, chunkVars>>

\* finally { if (tempFileHandle) await tempFileHandle.cleanup() }
CleanupInputFile ==
    /\ pc = "cleanup"
    /\ tempFileHandle' = IF tempFileHandle = "open" THEN "cleaned" ELSE tempFileHandle
    /\ pc' = "done"
    /\ UNCHANGED <<file, startTime, response, duration, initialStartTime, time,
                   chunkStartTime, chunkDuration, chunks, chunkStartTimes, stream,
                   streamState, closeCount, delayMs>>
    /\ UNCHANGED <<systemVars, planVars, mergeVars, chunkVars>>

\* ------------------------------------------------------------ processChunk
\* A step that calls out of the repository rejects: the catch block decides,
\* then the finally block runs.
StepFails ==
    /\ pc = "await"
    /\ cpc \in {"tempfile", "ffmpeg", "upload", "poll", "generate"}
    /\ \E error \in ErrorsAt(cpc) :
        /\ caught' = error
        /\ result' = processChunkCatch(error, chunkStartTime)
    /\ cpc' = "finally"
    /\ UNCHANGED <<chunkFileHandle, uploadedFileState, parsedTranscript>>
    /\ UNCHANGED <<systemVars, planVars, mergeVars, postVars>>

\* chunkFileHandle = await tempFile(...)
CreateChunkFile ==
    /\ pc = "await"
    /\ cpc = "tempfile"
    /\ chunkFileHandle' = "open"
    /\ cpc' = "ffmpeg"
    /\ UNCHANGED <<uploadedFileState, caught, parsedTranscript, result>>
    /\ UNCHANGED <<systemVars, planVars, mergeVars, postVars>>

\* ffmpeg(inputPath).setStartTime(startTime).setDuration(chunkDuration)... 'end'
ExtractChunk ==
    /\ pc = "await"
    /\ cpc = "ffmpeg"
    /\ cpc' = "upload"
    /\ UNCHANGED <<chunkFileHandle, uploadedFileState, caught, parsedTranscript, result>>
    /\ UNCHANGED <<systemVars, planVars, mergeVars, postVars>>

\* uploadFile, then the first getFile.
UploadChunk ==
    /\ pc = "await"
    /\ cpc = "upload"
    /\ \E st \in {"PROCESSING", "ACTIVE", "FAILED"} : uploadedFileState' = st
    /\ cpc' = "poll"
    /\ UNCHANGED <<chunkFileHandle, caught, parsedTranscript, result>>
    /\ UNCHANGED <<systemVars, planVars, mergeVars, postVars>>

PollChunkStaysProcessing ==
    /\ pc = "await"
    /\ cpc = "poll"
    /\ uploadedFileState = "PROCESSING"
    /\ uploadedFileState' = "PROCESSING"
    /\ UNCHANGED <<cpc, chunkFileHandle, caught, parsedTranscript, result>>
    /\ UNCHANGED <<systemVars, planVars, mergeVars, postVars>>

\* while (uploadedFile.state === PROCESSING) { wait 5 s; getFile }
PollChunk ==
    /\ pc = "await"
    /\ cpc = "poll"
    /\ uploadedFileState = "PROCESSING"
    /\ \E st \in {"PROCESSING", "ACTIVE", "FAILED"} : uploadedFileState' = st
    /\ UNCHANGED <<cpc, chunkFileHandle, caught, parsedTranscript, result>>
    /\ UNCHANGED <<systemVars, planVars, mergeVars, postVars>>

\* if (uploadedFile.state === FAILED) throw new Error('Chunk processing failed')
ChunkFailedState ==
    /\ pc = "await"
    /\ cpc = "poll"
    /\ uploadedFileState = "FAILED"
    /\ caught' = [NoError EXCEPT !.step = "failed"]
    /\ result' = processChunkCatch([NoError EXCEPT !.step = "failed"], chunkStartTime)
    /\ cpc' = "finally"
    /\ UNCHANGED <<chunkFileHandle, uploadedFileState, parsedTranscript>>
    /\ UNCHANGED <<systemVars, planVars, mergeVars, postVars>>

\* The uploaded file left PROCESSING and did not fail.
ChunkReady ==
    /\ pc = "await"
    /\ cpc = "poll"
    /\ uploadedFileState = "ACTIVE"
    /\ cpc' = "generate"
    /\ UNCHANGED <<chunkFileHandle, uploadedFileState, caught, parsedTranscript, result>>
    /\ UNCHANGED <<systemVars, planVars, mergeVars, postVars>>

\* generateContentStream, the text accumulated, JSON.parse, and the map.
GenerateTranscript ==
    /\ pc = "await"
    /\ cpc = "generate"
    /\ \E parsed \in ParsedTranscripts :
        /\ parsedTranscript' = parsed
        /\ result' = [kind |-> "return",
                      entries |-> adjustEntries(parsed, chunkStartTime, chunkDuration),
                      error |-> NoError]
    /\ cpc' = "finally"
    /\ UNCHANGED <<chunkFileHandle, uploadedFileState, caught>>
    /\ UNCHANGED <<systemVars, planVars, mergeVars, postVars>>

\* finally { if (chunkFileHandle) await chunkFileHandle.cleanup() }
CleanupChunkFile ==
    /\ pc = "await"
    /\ cpc = "finally"
    /\ chunkFileHandle' = IF chunkFileHandle = "open" THEN "cleaned" ELSE chunkFileHandle
    /\ cpc' = "done"
    /\ UNCHANGED <<uploadedFileState, caught, parsedTranscript, result>>
    /\ UNCHANGED <<systemVars, planVars, mergeVars, postVars>>

\* ------------------------------------------------------------ orchestrator loop body
\* processChunk returned: push, enqueue chunkData, then wait 10 s or 3 s.
EmitChunk ==
    /\ pc = "await"
    /\ cpc = "done"
    /\ result.kind = "return"
    /\ chunks' = Append(chunks, result.entries)
    /\ chunkStartTimes' = Append(chunkStartTimes, chunkStartTime)
    /\ stream' = enqueue(stream, chunkDataOf(chunkStartTime, chunkDuration, duration, result.entries))
    /\ delayMs' = IF firstSpeakerIsSystem(result.entries) THEN 10000 ELSE 3000
    /\ pc' = "delay"
    /\ UNCHANGED <<file, startTime, response, tempFileHandle, duration, initialStartTime,
                   time, chunkStartTime, chunkDuration, streamState, closeCount>>
    /\ UNCHANGED <<systemVars, planVars, mergeVars, chunkVars>>

EmitErrorAborts ==
    /\ pc = "await"
    /\ cpc = "done"
    /\ result.kind = "throw"
    /\ streamState' = "errored"
    /\ pc' = "cleanup"
    /\ UNCHANGED <<file, startTime, response, tempFileHandle, duration, initialStartTime,
                   time, chunkStartTime, chunkDuration, chunks, chunkStartTimes, stream,
                   closeCount, delayMs>>
    /\ UNCHANGED <<systemVars, planVars, mergeVars, chunkVars>>

\* processChunk threw: enqueue errorData, then wait errorDelay.
EmitError ==
    /\ pc = "await"
    /\ cpc = "done"
    /\ result.kind = "throw"
    /\ stream' = enqueue(stream, errorDataOf(chunkStartTime, chunkDuration, duration, result.error))
    /\ delayMs' = errorDelayOf(result.error)
    /\ pc' = "delay"
    /\ UNCHANGED <<file, startTime, response, tempFileHandle, duration, initialStartTime,
                   time, chunkStartTime, chunkDuration, chunks, chunkStartTimes,
                   streamState, closeCount>>
    /\ UNCHANGED <<systemVars, planVars, mergeVars, chunkVars>>

\* The delay elapsed: time += CHUNK_DURATION.
NextWindow ==
    /\ pc = "delay"
    /\ time' = [time EXCEPT !.val = @ + CHUNK_DURATION]
    /\ delayMs' = 0
    /\ pc' = "loop"
    /\ cpc' = "idle"
    /\ UNCHANGED <<chunkFileHandle, uploadedFileState, caught, parsedTranscript, result>>
    /\ UNCHANGED <<file, startTime, response, tempFileHandle, duration, initialStartTime,
                   chunkStartTime, chunkDuration, chunks, chunkStartTimes, stream,
                   streamState, closeCount>>
    /\ UNCHANGED <<systemVars, planVars, mergeVars>>

Next ==
    \/ RejectNoFile \/ CreateInputFile \/ CreateInputFileFails \/ ProbeFails \/ Probe
    \/ SetupClients \/ SetupClientsFails \/ StartWindow \/ CloseStream \/ CleanupInputFile
    \/ StepFails \/ CreateChunkFile \/ ExtractChunk \/ UploadChunk \/ PollChunk
    \/ ChunkFailedState \/ ChunkReady \/ GenerateTranscript \/ CleanupChunkFile
    \/ EmitChunk \/ EmitError \/ NextWindow

Spec == Init /\ [][Next]_vars

\* The steps of a run that do not depend on a failure: each awaited call
\* returns, each timer fires, and polling leaves the PROCESSING state.
Fairness ==
    /\ WF_vars(StartWindow) /\ WF_vars(CloseStream) /\ WF_vars(CleanupInputFile)
    /\ WF_vars(CreateChunkFile) /\ WF_vars(ExtractChunk) /\ WF_vars(UploadChunk)
    /\ WF_vars(PollChunk) /\ WF_vars(ChunkFailedState) /\ WF_vars(ChunkReady)
    /\ WF_vars(GenerateTranscript) /\ WF_vars(CleanupChunkFile)
    /\ WF_vars(EmitChunk) /\ WF_vars(EmitError) /\ WF_vars(NextWindow)

FairSpec == Spec /\ Fairness

\* ------------------------------------------------------------ C2
PlanCovers(p) ==
    \E i \in 1..Len(planWindows) :
        /\ planWindows[i].start <= p
        /\ p < planWindows[i].start + planWindows[i].duration

\* C2: with resume offset 0 and overlap < windowLength, the planned starts
\* strictly increase, by exactly windowLength wherever the earlier start is
\* not clamped at 0; the last window ends at totalDuration; every point of
\* [0, totalDuration) lies in a window; and 300/120/60 plans exactly
\* (0,180), (60,180), (180,120).
C2_PlanShape ==
    planPc = "done" =>
        LET n == Len(planWindows) IN
        /\ \A i \in 1..(n - 1) :
              /\ planWindows[i].start < planWindows[i + 1].start
              /\ ((i - 1) * planWindowLength - planOverlap >= 0
                    => planWindows[i + 1].start - planWindows[i].start = planWindowLength)
        /\ (n > 0 => planWindows[n].start + planWindows[n].duration = planDuration)
        /\ \A p \in 0..(planDuration - 1) : PlanCovers(p)
        /\ (planDuration = 300 /\ planWindowLength = 120 /\ planOverlap = 60
              => planWindows = << [start |-> 0, duration |-> 180],
                                  [start |-> 60, duration |-> 180],
                                  [start |-> 180, duration |-> 120] >>)

C2_Witness ==
    /\ planPc = "done"
    /\ planDuration = 300 /\ planWindowLength = 120 /\ planOverlap = 60
    /\ Len(planWindows) = 3

\* ------------------------------------------------------------ merger run
\* The entries a window's transcript may hold.
MergeTimestamps == { <<0, 0>>, <<0, 4>> }
MergeSpeakers == { "Bob", "Speaker 1" }
MergeTexts == { "hello", "world" }
MergeStartTimes == { 0, 1 }

MergeEntries ==
    { e \in [timestamp : MergeTimestamps, speaker : MergeSpeakers, text : MergeTexts] :
        e.speaker = "Speaker 1" => e.text = "hello" }

SeqsUpTo(S, n) == UNION { [1..k -> S] : k \in 0..n }

\* The overlap scenario: "01:00" of the window at 0 and "00:03" of the window at 57.
ScenarioChunks ==
    << <<[timestamp |-> <<1, 0>>, speaker |-> "Speaker 1", text |-> "hello"]>>,
       <<[timestamp |-> <<0, 3>>, speaker |-> "Speaker 1", text |-> "hello"]>> >>

ScenarioStarts == <<0, 57>>

MergeInit ==
    /\ PlanIdle
    /\ PostIdle
    /\ ClientIdle
    /\ mergeChunks = <<>>
    /\ mergeStarts = <<>>
    /\ mergeMap = [l \in {} |-> ""]
    /\ mergeMerged = <<>>
    /\ mergeOut = <<>>
    /\ mergeOutTwice = <<>>
    /\ mergePc = "input"

\* chunks.push(chunkTranscript); chunkStartTimes.push(chunkStartTime)
PushChunk ==
    /\ mergePc = "input"
    /\ Len(mergeChunks) < MaxMergeChunks
    /\ \E chunk \in SeqsUpTo(MergeEntries, MaxMergeEntries - Len(Flatten(mergeChunks))),
          start \in MergeStartTimes :
        /\ mergeChunks' = Append(mergeChunks, chunk)
        /\ mergeStarts' = Append(mergeStarts, start)
    /\ UNCHANGED <<mergeMap, mergeMerged, mergeOut, mergeOutTwice, mergePc>>
    /\ UNCHANGED <<planVars, postVars, chunkVars, systemVars>>

\* The two windows of the overlap scenario, pushed together.
PushScenario ==
    /\ mergePc = "input"
    /\ mergeChunks = <<>>
    /\ mergeChunks' = ScenarioChunks
    /\ mergeStarts' = ScenarioStarts
    /\ UNCHANGED <<mergeMap, mergeMerged, mergeOut, mergeOutTwice, mergePc>>
    /\ UNCHANGED <<planVars, postVars, chunkVars, systemVars>>

\* mergeTranscripts(chunks, chunkStartTimes)
Merge ==
    /\ mergePc = "input"
    /\ mergeMap' = buildSpeakerMap(mergeChunks)
    /\ mergeMerged' = mergeUnsorted(mergeChunks, mergeStarts)
    /\ mergeOut' = mergeTranscripts(mergeChunks, mergeStarts)
    /\ mergePc' = "merged"
    /\ UNCHANGED <<mergeChunks, mergeStarts, mergeOutTwice>>
    /\ UNCHANGED <<planVars, postVars, chunkVars, systemVars>>

\* mergeTranscripts on the same per-window entries given twice.
MergeTwice ==
    /\ mergePc = "merged"
    /\ mergeOutTwice' = mergeTranscripts(mergeChunks \o mergeChunks, mergeStarts \o mergeStarts)
    /\ mergePc' = "remerged"
    /\ UNCHANGED <<mergeChunks, mergeStarts, mergeMap, mergeMerged, mergeOut>>
    /\ UNCHANGED <<planVars, postVars, chunkVars, systemVars>>

MergeNext == PushChunk \/ PushScenario \/ Merge \/ MergeTwice

SpecMerge == MergeInit /\ [][MergeNext]_vars

\* ------------------------------------------------------------ C1
\* The records are those of the first windows of the plan, in order; a run that
\* reached the loop and ended has closed the stream, once, with all of them.
C1_StreamFollowsPlan ==
    LET plan == plannedWindows(initialStartTime, duration) IN
    /\ Len(stream) <= Len(plan)
    /\ \A i \in 1..Len(stream) :
          /\ stream[i].startTime = plan[i].start
          /\ stream[i].endTime = plan[i].start + plan[i].duration
    /\ (streamState = "closed" => Len(stream) = Len(plan))
    /\ closeCount <= 1
    /\ (streamState = "closed" <=> closeCount = 1)
    /\ (pc = "done" /\ response = 200 /\ streamState /= "errored" => streamState = "closed")

\* A step appends at most one record and changes none; nothing follows the close.
C1_AppendOnly ==
    /\ Len(stream') \in {Len(stream), Len(stream) + 1}
    /\ SubSeq(stream', 1, Len(stream)) = stream
    /\ (streamState = "closed" =>
          /\ stream' = stream
          /\ streamState' = "closed"
          /\ closeCount' = closeCount)

\* C1: the records on the stream are, in order, one for each of the first
\* windows of the plan, and one for every planned window once the stream is
\* closed, whatever each window's outcome; a step only ever appends one record
\* and leaves the earlier ones as they are; the stream is closed once, and
\* nothing is enqueued after that.
C1_OneRecordPerWindow == [](C1_StreamFollowsPlan) /\ [][C1_AppendOnly]_vars

\* A closed stream of three windows: a success, a soft failure, a hard failure.
C1_Witness ==
    /\ streamState = "closed"
    /\ Len(stream) = 3
    /\ \E i \in 1..3 : stream[i].status = "success"
    /\ \E i \in 1..3 : stream[i].status = "error" /\ stream[i].retryAfter = {}
    /\ \E i \in 1..3 : stream[i].status = "error" /\ stream[i].retryAfter /= {}

\* ------------------------------------------------------------ C3
\* C3: every window handed to the processor, for every total duration and
\* every startTime a request supplies, has start >= 0, duration > 0 and
\* start + duration <= totalDuration.
C3_WindowInvariant ==
    pc \in {"await", "delay"} =>
        /\ chunkStartTime >= 0
        /\ chunkDuration > 0
        /\ chunkStartTime + chunkDuration <= duration

IsPlaceholder(entries, start) ==
    entries \in { <<[timestamp |-> formatTime(start), speaker |-> "System", text |-> m]>> :
                    m \in {SafetyMessage, RateLimitMessage} }

\* C5: the record of a window whose processor call returned has status error
\* exactly when the returned entries are the one synthetic System placeholder.
C5_ErrorIffPlaceholder ==
    (pc = "delay" /\ result.kind = "return") =>
        (stream[Len(stream)].status = "error" <=> IsPlaceholder(result.entries, chunkStartTime))

\* ------------------------------------------------------------ C6
\* C6: every record with status error carries exactly one synthetic entry and
\* a retryAfter delay.
C6_ErrorRecordShape ==
    \A i \in 1..Len(stream) :
        stream[i].status = "error" =>
            /\ Len(stream[i].entries) = 1
            /\ stream[i].entries[1].speaker = "System"
            /\ stream[i].retryAfter /= {}

\* ------------------------------------------------------------ C7
\* C7: merging the same per-window entries twice (the windows and their starts
\* given twice over) returns what merging them once returns.
C7_MergeIdempotent ==
    mergePc = "remerged" => mergeOutTwice = mergeOut

C7_Witness ==
    /\ mergePc = "remerged"
    /\ Len(mergeChunks) = 2
    /\ Len(mergeOut) >= 2
    /\ mergeOutTwice = mergeOut

\* ------------------------------------------------------------ C8
PositionIn(list, e) == CHOOSE k \in 1..Len(list) : list[k] = e

\* C8: whatever the order of the windows, the merger's output is the list
\* `merged` rearranged so that timestamps ascend, and entries with equal
\* timestamps stand in the order in which they were pushed.
C8_SortedStable ==
    mergePc /= "input" =>
        /\ Len(mergeOut) = Len(mergeMerged)
        /\ \A k \in 1..Len(mergeMerged) : \E i \in 1..Len(mergeOut) : mergeOut[i] = mergeMerged[k]
        /\ \A i, j \in 1..Len(mergeOut) :
              i < j =>
                /\ parseTimeToSeconds(mergeOut[i].timestamp) <= parseTimeToSeconds(mergeOut[j].timestamp)
                /\ (parseTimeToSeconds(mergeOut[i].timestamp) = parseTimeToSeconds(mergeOut[j].timestamp)
                      => PositionIn(mergeMerged, mergeOut[i]) < PositionIn(mergeMerged, mergeOut[j]))

C8_Witness ==
    /\ mergePc = "merged"
    /\ mergeStarts = <<1, 0>>
    /\ mergeOut /= mergeMerged
    /\ \E i \in 1..(Len(mergeOut) - 1) : mergeOut[i].timestamp = mergeOut[i + 1].timestamp

\* ------------------------------------------------------------ C9
NearSame(e, t, speaker, text) ==
    /\ Abs(parseTimeToSeconds(e.timestamp) - t) < 5
    /\ e.speaker = speaker
    /\ e.text = text

FirstSeen(all, label) == CHOOSE i \in 1..Len(all) :
    /\ all[i].speaker = label
    /\ \A j \in 1..(i - 1) : all[j].speaker /= label

\* C10: the k-th distinct raw speaker label met scanning windows in order,
\* entries in order, maps to "Speaker k"; the map is a function of the raw
\* label and maps distinct raw labels to distinct canonical labels.
C10_FirstSeenOrder ==
    mergePc /= "input" =>
        LET all == Flatten(mergeChunks)
            raw == { all[i].speaker : i \in 1..Len(all) }
        IN /\ DOMAIN mergeMap = raw
           /\ \A l \in raw :
                 mergeMap[l] = SpeakerNames[
                     1 + Cardinality({ all[j].speaker : j \in 1..(FirstSeen(all, l) - 1) })]
           /\ \A l1, l2 \in raw : l1 /= l2 => mergeMap[l1] /= mergeMap[l2]

C10_Witness ==
    /\ mergePc = "merged"
    /\ Len(mergeChunks) = 2
    /\ DOMAIN mergeMap = {"Bob", "Speaker 1"}
    /\ mergeMap["Bob"] = "Speaker 1"
    /\ mergeMap["Speaker 1"] = "Speaker 2"

\* ------------------------------------------------------------ client run
\* The upload form is shown unless a run completed or was interrupted.
FormVisible == ~(uploadComplete \/ transcriptionInterrupted)

\* formData of handleSubmit: startTime is (startFrom ?? processedDuration)
\* as a string, retryCount is "1" in a continuation.
formDataOf(continuation, startFrom) ==
    [startTime |-> [present |-> TRUE,
                    text |-> toString(IF startFrom /= {} THEN CHOOSE x \in startFrom : TRUE
                                      ELSE processedDuration)],
     retryCount |-> IF continuation THEN {1} ELSE {}]

\* No request in flight.
NoFormData == [startTime |-> [present |-> FALSE, text |-> <<>>], retryCount |-> {}]

RemoveAt(list, c) == SubSeq(list, 1, c - 1) \o SubSeq(list, c + 1, Len(list))

\* handleSubmit up to its first await: the arrays are emptied unless it is a
\* continuation, and without a file the call returns, else the request is sent
\* and the call waits for the response. `before` is the list of the other
\* calls; `run` is the handler run that answers the call, 0 while none does;
\* `chunkTranscript` is the error record the call waits on, if any.
handleSubmitEnter(before, continuation, startFrom, hasFile) ==
    /\ transcriptArray' = IF continuation THEN transcriptArray ELSE <<>>
    /\ processedChunks' = IF continuation THEN processedChunks ELSE <<>>
    /\ calls' = IF hasFile
                THEN Append(before,
                            [pc |-> "fetch",
                             formData |-> formDataOf(continuation, startFrom),
                             run |-> 0,
                             retryDelay |-> 0,
                             chunkTranscript |-> {}])
                ELSE before

\* handleFileInput: a file is chosen, or the choice is cleared.
HandleFileInput ==
    /\ FormVisible
    /\ selectedFile' = ~selectedFile
    /\ UNCHANGED <<uploadComplete, isUploading, processedDuration, lastProcessedTimestamp,
                   transcriptionInterrupted, clientDuration, transcriptArray,
                   processedChunks, samplePending, calls, runs>>
    /\ UNCHANGED <<planVars, mergeVars, postVars, chunkVars>>

\* The button Upload File: handleSubmit().
ClickUpload ==
    /\ FormVisible
    /\ selectedFile
    /\ ~isUploading
    /\ samplePending + Len(calls) < MaxCalls
    /\ handleSubmitEnter(calls, FALSE, {}, TRUE)
    /\ isUploading' = TRUE
    /\ UNCHANGED <<selectedFile, uploadComplete, processedDuration, lastProcessedTimestamp,
                   transcriptionInterrupted, clientDuration, samplePending, runs>>
    /\ UNCHANGED <<planVars, mergeVars, postVars, chunkVars>>

\* The link Try transcribing a sample file: useSample() up to its first await.
ClickUseSample ==
    /\ FormVisible
    /\ ~isUploading
    /\ samplePending + Len(calls) < MaxCalls
    /\ samplePending' = samplePending + 1
    /\ UNCHANGED <<selectedFile, uploadComplete, isUploading, processedDuration,
                   lastProcessedTimestamp, transcriptionInterrupted, clientDuration,
                   transcriptArray, processedChunks, calls, runs>>
    /\ UNCHANGED <<planVars, mergeVars, postVars, chunkVars>>

\* The sample file arrived: useSample selects it and calls handleSubmit().
SampleFetched ==
    /\ samplePending > 0
    /\ samplePending' = samplePending - 1
    /\ selectedFile' = TRUE
    /\ handleSubmitEnter(calls, FALSE, {}, TRUE)
    /\ isUploading' = TRUE
    /\ UNCHANGED <<uploadComplete, processedDuration, lastProcessedTimestamp,
                   transcriptionInterrupted, clientDuration, runs>>
    /\ UNCHANGED <<planVars, mergeVars, postVars, chunkVars>>

\* The button Continue Transcription: handleSubmit(true).
ClickContinue ==
    /\ transcriptionInterrupted
    /\ ~isUploading
    /\ samplePending + Len(calls) < MaxCalls
    /\ handleSubmitEnter(calls, TRUE, {}, selectedFile)
    /\ isUploading' = selectedFile
    /\ UNCHANGED <<selectedFile, uploadComplete, processedDuration, lastProcessedTimestamp,
                   transcriptionInterrupted, clientDuration, samplePending, runs>>
    /\ UNCHANGED <<planVars, mergeVars, postVars, chunkVars>>

\* fetch resolved with !response.ok, or rejected: the run is interrupted and
\* the call returns through finally.
responseFails(c) ==
    /\ calls[c].pc = "fetch"
    /\ transcriptionInterrupted' = TRUE
    /\ isUploading' = FALSE
    /\ calls' = RemoveAt(calls, c)
    /\ UNCHANGED <<selectedFile, uploadComplete, processedDuration, lastProcessedTimestamp,
                   clientDuration, transcriptArray, processedChunks, samplePending>>

\* fetch resolved with response.ok: the reader is taken.
responseOk(c) ==
    /\ calls[c].pc = "fetch"
    /\ calls' = [calls EXCEPT ![c].pc = "read", ![c].formData = NoFormData]
    /\ UNCHANGED <<selectedFile, uploadComplete, isUploading, processedDuration,
                   lastProcessedTimestamp, transcriptionInterrupted, clientDuration,
                   transcriptArray, processedChunks, samplePending>>

\* reader.read() gave done.
readDone(c) ==
    /\ calls[c].pc = "read"
    /\ uploadComplete' = TRUE
    /\ isUploading' = FALSE
    /\ calls' = RemoveAt(calls, c)
    /\ UNCHANGED <<selectedFile, processedDuration, lastProcessedTimestamp,
                   transcriptionInterrupted, clientDuration, transcriptArray,
                   processedChunks, samplePending>>

\* reader.read() rejected: the outer catch, then finally.
readFails(c) ==
    /\ calls[c].pc = "read"
    /\ transcriptionInterrupted' = TRUE
    /\ isUploading' = FALSE
    /\ calls' = RemoveAt(calls, c)
    /\ UNCHANGED <<selectedFile, uploadComplete, processedDuration, lastProcessedTimestamp,
                   clientDuration, transcriptArray, processedChunks, samplePending>>

\* reader.read() gave the line of one record: the total duration is learnt
\* from it when none is known; an error record interrupts the run and starts
\* the wait before the retry; any other record adds its span, checks for gaps,
\* appends its new entries sorted and moves the high-water mark.
consumeRecord(c, record) ==
    /\ calls[c].pc = "read"
    /\ LET dur == IF clientDuration = 0 /\ record.totalDuration /= 0
                  THEN record.totalDuration ELSE clientDuration
       IN /\ clientDuration' = dur
          /\ IF record.status = "error"
             THEN /\ transcriptionInterrupted' = TRUE
                  /\ lastProcessedTimestamp' = formatTime(record.startTime)
                  /\ calls' = [calls EXCEPT ![c].pc = "delay",
                                            ![c].retryDelay = retryDelayOf(record),
                                            ![c].chunkTranscript = {record}]
                  /\ UNCHANGED <<processedDuration, transcriptArray, processedChunks>>
             ELSE LET checked == checkForGaps(
                                     Append(processedChunks,
                                            [start |-> record.startTime, end |-> record.endTime]),
                                     Marks(transcriptionInterrupted, lastProcessedTimestamp,
                                           processedDuration))
                      newEntries == newEntriesOf(record.entries, transcriptArray, dur)
                      marks == IF newEntries /= <<>>
                               THEN updateProcessedDuration(
                                        newEntries[Len(newEntries)].timestamp, checked.marks)
                               ELSE checked.marks
                  IN /\ Len(processedChunks) < MaxSpans
                     /\ processedChunks' = checked.processedChunks
                     /\ transcriptArray' = IF newEntries /= <<>>
                                           THEN sortByTimestamp(transcriptArray \o newEntries)
                                           ELSE transcriptArray
                     /\ transcriptionInterrupted' = marks.transcriptionInterrupted
                     /\ lastProcessedTimestamp' = marks.lastProcessedTimestamp
                     /\ processedDuration' = marks.processedDuration
                     /\ UNCHANGED calls
    /\ UNCHANGED <<selectedFile, uploadComplete, isUploading, samplePending>>

\* The wait before the retry is over: handleSubmit(true, chunkTranscript.startTime)
\* runs to its first await, then the waiting call returns through finally.
RetryAfterDelay ==
    /\ \E c \in 1..Len(calls) :
        /\ calls[c].pc = "delay"
        /\ handleSubmitEnter(RemoveAt(calls, c), TRUE,
                             {failed.startTime : failed \in calls[c].chunkTranscript},
                             selectedFile)
    /\ isUploading' = FALSE
    /\ UNCHANGED <<selectedFile, uploadComplete, processedDuration, lastProcessedTimestamp,
                   transcriptionInterrupted, clientDuration, samplePending, runs>>
    /\ UNCHANGED <<planVars, mergeVars, postVars, chunkVars>>

\* ------------------------------------------------------------ client run, any records
\* The spans (start, duration), in a file of MaxDuration seconds, and the
\* answers of the backend the records of this specification are made of.
ClientSpans == { <<0, 60>>, <<63, 57>>, <<70, 50>>, <<140, 50>> }

ClientParsed ==
    { <<>> } \cup
    { << [timestamp |-> <<0, sec>>, speaker |-> "Speaker 1", text |-> "hello"] >> :
        sec \in {50, 53} }

ClientErrors ==
    { [NoError EXCEPT !.step = "generate"],
      [NoError EXCEPT !.step = "generate", !.hasTooManyRequests = TRUE],
      [NoError EXCEPT !.step = "generate", !.has429 = TRUE] }

\* The records a response may carry: what POST builds for a span from the
\* return or the throw of processChunk.
ClientRecords ==
    { chunkDataOf(span[1], span[2], MaxDuration,
                  adjustEntries(parsed, span[1], span[2])) :
        <<span, parsed>> \in
            { sp \in ClientSpans \X ClientParsed :
                \/ sp[1][1] = 0
                \/ Len(sp[2]) = 0
                \/ (sp[1][1] = 140 /\ sp[2][1].timestamp = <<0, 50>>) } }
    \cup
    { LET returned == processChunkCatch(error, 70)
      IN IF returned.kind = "return"
         THEN chunkDataOf(70, 50, MaxDuration, returned.entries)
         ELSE errorDataOf(70, 50, MaxDuration, returned.error) :
        error \in ClientErrors }

ClientInit ==
    /\ PlanIdle
    /\ MergeIdle
    /\ PostIdle
    /\ ClientIdle

ResponseFails ==
    /\ \E c \in 1..Len(calls) : responseFails(c)
    /\ UNCHANGED runs
    /\ UNCHANGED <<planVars, mergeVars, postVars, chunkVars>>

ResponseOk ==
    /\ \E c \in 1..Len(calls) : responseOk(c)
    /\ UNCHANGED runs
    /\ UNCHANGED <<planVars, mergeVars, postVars, chunkVars>>

ReadRecord ==
    /\ \E c \in 1..Len(calls) : \E record \in ClientRecords : consumeRecord(c, record)
    /\ UNCHANGED runs
    /\ UNCHANGED <<planVars, mergeVars, postVars, chunkVars>>

ReadDone ==
    /\ \E c \in 1..Len(calls) : readDone(c)
    /\ UNCHANGED runs
    /\ UNCHANGED <<planVars, mergeVars, postVars, chunkVars>>

ReadFails ==
    /\ \E c \in 1..Len(calls) : readFails(c)
    /\ UNCHANGED runs
    /\ UNCHANGED <<planVars, mergeVars, postVars, chunkVars>>

ClientNext ==
    \/ HandleFileInput \/ ClickUpload \/ ClickUseSample \/ SampleFetched \/ ClickContinue
    \/ ResponseFails \/ ResponseOk \/ ReadRecord \/ ReadDone \/ ReadFails \/ RetryAfterDelay

SpecClient == ClientInit /\ [][ClientNext]_vars

\* ------------------------------------------------------------ page and server
\* The page with the handler runs that answer its requests. A run is POST for
\* one request, with processChunk as one step; its stream holds the records
\* enqueued and not yet read.
SystemParsed ==
    { << [timestamp |-> <<0, 10>>, speaker |-> "Speaker 1", text |-> "hello"] >> }

SystemErrors == { [NoError EXCEPT !.step = "generate"] }

\* POST up to `return new Response(stream)`, or to the answer 500 of its catch.
RunAccept ==
    /\ Len(runs) < MaxRuns
    /\ \E c \in 1..Len(calls) :
        /\ calls[c].pc = "fetch"
        /\ calls[c].run = 0
        /\ calls' = [calls EXCEPT ![c].run = Len(runs) + 1]
        /\ \E status \in {200, 500} :
            runs' = Append(runs,
                           [pc |-> IF status = 200 THEN "loop" ELSE "done",
                            response |-> status,
                            duration |-> IF status = 200 THEN MaxDuration ELSE 0,
                            time |-> IF status = 200
                                     THEN initialStartTimeOf(calls[c].formData.startTime)
                                     ELSE [nan |-> FALSE, val |-> 0],
                            chunkStartTime |-> 0,
                            chunkDuration |-> 0,
                            stream |-> <<>>])
    /\ UNCHANGED <<selectedFile, uploadComplete, isUploading, processedDuration,
                   lastProcessedTimestamp, transcriptionInterrupted, clientDuration,
                   transcriptArray, processedChunks, samplePending>>
    /\ UNCHANGED <<planVars, mergeVars, postVars, chunkVars>>

\* Loop test true: the window of `time`, and the call of processChunk.
RunStartWindow ==
    /\ \E k \in 1..Len(runs) :
        /\ runs[k].pc = "loop"
        /\ loopCondition(runs[k].time, runs[k].duration)
        /\ runs' = [runs EXCEPT
                      ![k].pc = "await",
                      ![k].chunkStartTime = chunkStartTimeOf(runs[k].time.val, CHUNK_OVERLAP),
                      ![k].chunkDuration = chunkDurationOf(runs[k].time.val, runs[k].duration,
                                                           CHUNK_DURATION, CHUNK_OVERLAP)]
    /\ UNCHANGED clientVars
    /\ UNCHANGED <<planVars, mergeVars, postVars, chunkVars>>

\* processChunk returned or threw: the record is enqueued and the delay starts.
RunEmit ==
    /\ \E k \in 1..Len(runs) :
        /\ runs[k].pc = "await"
        /\ \E record \in
               { chunkDataOf(runs[k].chunkStartTime, runs[k].chunkDuration, runs[k].duration,
                             adjustEntries(parsed, runs[k].chunkStartTime,
                                           runs[k].chunkDuration)) :
                   parsed \in SystemParsed }
               \cup
               { LET returned == processChunkCatch(error, runs[k].chunkStartTime)
                 IN IF returned.kind = "return"
                    THEN chunkDataOf(runs[k].chunkStartTime, runs[k].chunkDuration,
                                     runs[k].duration, returned.entries)
                    ELSE errorDataOf(runs[k].chunkStartTime, runs[k].chunkDuration,
                                     runs[k].duration, returned.error) :
                   error \in SystemErrors } :
            runs' = [runs EXCEPT ![k].pc = "delay",
                                 ![k].stream = enqueue(runs[k].stream, record)]
    /\ UNCHANGED clientVars
    /\ UNCHANGED <<planVars, mergeVars, postVars, chunkVars>>

\* The delay elapsed: time += CHUNK_DURATION.
RunNextWindow ==
    /\ \E k \in 1..Len(runs) :
        /\ runs[k].pc = "delay"
        /\ runs' = [runs EXCEPT ![k].pc = "loop",
                                ![k].time = [runs[k].time EXCEPT !.val = @ + CHUNK_DURATION]]
    /\ UNCHANGED clientVars
    /\ UNCHANGED <<planVars, mergeVars, postVars, chunkVars>>

\* Loop test false: controller.close().
RunClose ==
    /\ \E k \in 1..Len(runs) :
        /\ runs[k].pc = "loop"
        /\ ~loopCondition(runs[k].time, runs[k].duration)
        /\ runs' = [runs EXCEPT ![k].pc = "closed"]
    /\ UNCHANGED clientVars
    /\ UNCHANGED <<planVars, mergeVars, postVars, chunkVars>>

\* The response of the call's run arrived with status 500.
SystemResponseFails ==
    /\ \E c \in 1..Len(calls) :
        /\ calls[c].run /= 0
        /\ runs[calls[c].run].response = 500
        /\ responseFails(c)
    /\ UNCHANGED runs
    /\ UNCHANGED <<planVars, mergeVars, postVars, chunkVars>>

\* The response of the call's run arrived with status 200.
SystemResponseOk ==
    /\ \E c \in 1..Len(calls) :
        /\ calls[c].run /= 0
        /\ runs[calls[c].run].response = 200
        /\ responseOk(c)
    /\ UNCHANGED runs
    /\ UNCHANGED <<planVars, mergeVars, postVars, chunkVars>>

\* reader.read() gives the oldest record of the run's stream.
SystemReadRecord ==
    /\ \E c \in 1..Len(calls) :
        /\ calls[c].run /= 0
        /\ runs[calls[c].run].stream /= <<>>
        /\ consumeRecord(c, Head(runs[calls[c].run].stream))
        /\ runs' = [runs EXCEPT ![calls[c].run].stream = Tail(@)]
    /\ UNCHANGED <<planVars, mergeVars, postVars, chunkVars>>

\* reader.read() gives done: the stream is closed and empty.
SystemReadDone ==
    /\ \E c \in 1..Len(calls) :
        /\ calls[c].run /= 0
        /\ runs[calls[c].run].stream = <<>>
        /\ runs[calls[c].run].pc = "closed"
        /\ readDone(c)
    /\ UNCHANGED runs
    /\ UNCHANGED <<planVars, mergeVars, postVars, chunkVars>>

SystemNext ==
    \/ HandleFileInput \/ ClickUpload \/ ClickUseSample \/ SampleFetched \/ ClickContinue
    \/ RetryAfterDelay
    \/ RunAccept \/ RunStartWindow \/ RunEmit \/ RunNextWindow \/ RunClose
    \/ SystemResponseFails \/ SystemResponseOk \/ SystemReadRecord \/ SystemReadDone

SpecSystem == ClientInit /\ [][SystemNext]_vars

\* ------------------------------------------------------------ C11
\* C11: every entry processChunk returns from a parsed backend answer carries
\* the timestamp min(parsedSeconds + window start, window start + window
\* duration), so an out-of-range one is exactly the window end, and no entry
\* of a returned transcript or of an emitted success record lies after the
\* end of its window.
C11_TimestampClamp ==
    /\ (cpc \in {"finally", "done"} /\ result.kind = "return" /\ caught = NoError) =>
        /\ Len(result.entries) = Len(parsedTranscript)
        /\ \A i \in 1..Len(parsedTranscript) :
            LET parsedSeconds == parseTimeToSeconds(parsedTranscript[i].timestamp)
                emitted == parseTimeToSeconds(result.entries[i].timestamp)
                windowEnd == chunkStartTime + chunkDuration
            IN /\ emitted = IF parsedSeconds + chunkStartTime > windowEnd
                            THEN windowEnd
                            ELSE parsedSeconds + chunkStartTime
               /\ emitted <= windowEnd
               /\ result.entries[i].speaker = parsedTranscript[i].speaker
               /\ result.entries[i].text = parsedTranscript[i].text
    /\ \A k \in 1..Len(stream) :
        \A i \in 1..Len(stream[k].entries) :
            parseTimeToSeconds(stream[k].entries[i].timestamp) <= stream[k].endTime

\* A second window returned an entry the backend placed after the window end:
\* it carries the window end.
C11_Witness ==
    /\ cpc = "done"
    /\ result.kind = "return"
    /\ caught = NoError
    /\ chunkStartTime > 0
    /\ Len(parsedTranscript) = 1
    /\ parseTimeToSeconds(parsedTranscript[1].timestamp) + chunkStartTime
         > chunkStartTime + chunkDuration
    /\ parseTimeToSeconds(result.entries[1].timestamp) = chunkStartTime + chunkDuration

\* ------------------------------------------------------------ C13
C13_RunGoesOn ==
    /\ pc \in {"loop", "await", "delay"} => streamState = "open"
    /\ (pc = "await" /\ initialStartTime.val >= 0) =>
        \A k \in 1..Len(stream) : stream[k].startTime < chunkStartTime

C13_AfterHardFailure ==
    /\ (pc = "await" /\ cpc = "done" /\ result.kind = "throw") =>
        /\ pc' = "delay"
        /\ streamState' = "open"
        /\ stream' = Append(stream, stream'[Len(stream')])
        /\ stream'[Len(stream')].status = "error"
        /\ stream'[Len(stream')].startTime = chunkStartTime
        /\ delayMs' = errorDelayOf(result.error)
        /\ time' = time
    /\ pc = "delay" =>
        /\ pc' = "loop"
        /\ time' = [time EXCEPT !.val = @ + CHUNK_DURATION]
        /\ stream' = stream
        /\ streamState' = "open"
    /\ (pc = "loop" /\ pc' = "await") =>
        /\ chunkStartTime' = chunkStartTimeOf(time.val, CHUNK_OVERLAP)
        /\ cpc' = "tempfile"

C20_TempFilesReleased ==
    /\ cpc = "done" => chunkFileHandle /= "open"
    /\ pc = "done" => tempFileHandle /= "open"

\* ------------------------------------------------------------ C12
\* Some span starts more than 5 s after the end of the span before it.
GapIn(spans) ==
    \E i \in 2..Len(spans) : spans[i].start > spans[i - 1].end + 5

SortedByStart(spans) ==
    \A i \in 2..Len(spans) : spans[i - 1].start <= spans[i].start

C12_RecordConsumed ==
    Len(processedChunks') = Len(processedChunks) + 1 =>
        /\ SortedByStart(processedChunks')
        /\ \E k \in 1..Len(processedChunks') :
              RemoveAt(processedChunks', k) = processedChunks
        /\ transcriptionInterrupted' = (transcriptionInterrupted \/ GapIn(processedChunks'))

\* C12: when a record's span is added to the covered spans, the spans are
\* kept sorted by start and the run is marked interrupted by the gap check
\* exactly when some span starts more than 5 s after the end of the span
\* before it; the covered spans are always sorted.
C12_GapFlaggedIff == [](SortedByStart(processedChunks)) /\ [][C12_RecordConsumed]_vars

\* The spans (0,60),(70,120) were consumed: the gap is flagged and the resume
\* point is the end of the first span.
C12_Witness ==
    /\ processedChunks = << [start |-> 0, end |-> 60], [start |-> 70, end |-> 120] >>
    /\ transcriptionInterrupted
    /\ transcriptArray = <<>>
    /\ lastProcessedTimestamp = <<1, 0>>
    /\ processedDuration = 60
    /\ clientDuration = MaxDuration

\* ------------------------------------------------------------ C15
C15_Waiting ==
    \A c \in 1..Len(calls) :
        calls[c].pc = "delay" =>
            \A record \in calls[c].chunkTranscript :
                /\ record.status = "error"
                /\ transcriptionInterrupted
                /\ record.retryAfter = {calls[c].retryDelay}

C15_Step ==
    \A c \in 1..Len(calls) :
        /\ (calls[c].pc = "read" /\ Len(calls') = Len(calls) /\ calls'[c].pc = "delay") =>
              \A record \in calls'[c].chunkTranscript :
                  lastProcessedTimestamp' = formatTime(record.startTime)
        /\ (calls[c].pc = "delay" /\ calls' /= calls /\ RemoveAt(calls, c) = SubSeq(calls', 1, Len(calls) - 1)) =>
              /\ Len(calls') = Len(calls)
              /\ calls'[Len(calls')].pc = "fetch"
              /\ calls'[Len(calls')].formData.retryCount /= {}
              /\ \A record \in calls[c].chunkTranscript :
                    ~parseInt(calls'[Len(calls')].formData.startTime.text).nan
                    /\ parseInt(calls'[Len(calls')].formData.startTime.text).val = record.startTime

\* C15: a call that consumed an error record has marked the run interrupted
\* and set the resume timestamp to the record's startTime, waits the delay the
\* record names in retryAfter, and then one continuation request is sent whose
\* startTime is the record's startTime.
C15_RetryProtocol == [](C15_Waiting) /\ [][C15_Step]_vars

\* ------------------------------------------------------------ C16
\* The entries a step added to the displayed transcript.
AppendedEntries ==
    { transcriptArray'[i] : i \in 1..Len(transcriptArray') }
    \ { transcriptArray[i] : i \in 1..Len(transcriptArray) }

C16_Step ==
    Len(processedChunks') = Len(processedChunks) + 1 =>
        /\ \A i \in 1..Len(transcriptArray) :
              \E j \in 1..Len(transcriptArray') : transcriptArray'[j] = transcriptArray[i]
        /\ \A entry \in AppendedEntries :
              /\ ~isDuplicate(transcriptArray, parseTimeToSeconds(entry.timestamp),
                              entry.speaker, entry.text)
              /\ processedDuration' >= getSecondsFromTimestamp(entry.timestamp)

\* C16: consuming a success record keeps the displayed entries, appends only
\* entries that the Merger's rule does not call duplicates of a displayed
\* entry (less than 5 s away, same speaker, same text), and leaves the
\* high-water mark at or after every appended entry.
C16_AppendsAsMerger == [][C16_Step]_vars

\* ------------------------------------------------------------ C17
C17_FreshRequests ==
    \A c \in 1..Len(calls) :
        (calls[c].pc = "fetch" /\ calls[c].formData.retryCount = {}) =>
            parseInt(calls[c].formData.startTime.text) = [nan |-> FALSE, val |-> 0]

C17_FreshStart ==
    (Len(calls') = Len(calls) + 1 /\ calls'[Len(calls')].formData.retryCount = {}) =>
        /\ processedDuration' = 0
        /\ lastProcessedTimestamp' = formatTime(0)

\* C17: the start of a run that is not a continuation resets processedDuration
\* and lastProcessedTimestamp, and its request asks for the offset 0, whatever
\* ran before.
C17_FreshRunFromZero == [](C17_FreshRequests) /\ [][C17_FreshStart]_vars

\* ------------------------------------------------------------ C18
\* C18: no step of the page, whether it consumes a record, detects a gap or
\* handles an error record, lowers the high-water mark processedDuration.
C18_MarkMonotone == [][processedDuration' >= processedDuration]_vars

\* ------------------------------------------------------------ C19
\* The end of the span before the first gap of sorted spans.
FirstGapResumePoint(spans) ==
    LET first == CHOOSE i \in 2..Len(spans) :
                     /\ spans[i].start > spans[i - 1].end + 5
                     /\ \A j \in 2..(i - 1) : ~(spans[j].start > spans[j - 1].end + 5)
    IN spans[first - 1].end

\* C19: whenever the covered spans have a gap, the resume point
\* processedDuration is such that the windows of a continuation from it, the
\* first of which starts at chunkStartTimeOf(processedDuration), begin no later
\* than the end of the span before the first gap, and so cover every missing
\* region.
C19_ResumeCoversGaps ==
    GapIn(processedChunks) =>
        chunkStartTimeOf(processedDuration, CHUNK_OVERLAP)
            <= FirstGapResumePoint(processedChunks)

\* ------------------------------------------------------------ C14
\* The handler runs that are inside processChunk.
RunsProcessing == { k \in 1..Len(runs) : runs[k].pc = "await" }

\* C14: at any moment at most one window is being processed, whatever
\* requests the page has sent.
C14_OneWindowAtATime == Cardinality(RunsProcessing) <= 1

\* ------------------------------------------------------------ C21
\* The System-authored entry of a failed window's record is in the displayed
\* transcript.
FailureShown(record) ==
    \E i \in 1..Len(transcriptArray) :
        /\ transcriptArray[i].speaker = "System"
        /\ transcriptArray[i].text = record.entries[1].text
        /\ transcriptArray[i].timestamp = record.entries[1].timestamp

\* C21: once the page has consumed the error record of a failed window (it
\* is then waiting before its retry), the displayed transcript holds the
\* System-authored entry with that window's explanatory message.
C21_FailedWindowVisible ==
    \A c \in 1..Len(calls) :
        calls[c].pc = "delay" =>
            \A record \in calls[c].chunkTranscript : FailureShown(record)

\* ------------------------------------------------------------ C22
\* The entry `out` of the merged list is the entry `entry` of the input with at
\* most its speaker relabelled through speakerMap.
RelabelOf(out, entry) ==
    /\ out.text = entry.text
    /\ out.timestamp = entry.timestamp
    /\ out.speaker = mergeMap[entry.speaker]

\* C22: every entry the merger returns has the text and the timestamp of an
\* entry of the per-window input, whatever the window start offsets are; only
\* the speaker label differs.
C22_OnlySpeakerRelabelled ==
    mergePc /= "input" =>
        \A k \in 1..Len(mergeOut) :
            \E i \in 1..Len(mergeChunks) :
                \E j \in 1..Len(mergeChunks[i]) :
                    RelabelOf(mergeOut[k], mergeChunks[i][j])

\* ------------------------------------------------------------ C23
\* The run is over: the stream is closed, the handler has returned, and when
\* the plan had a window the last record enqueued is the one of the last
\* window, which ends at the total duration.
Completed ==
    /\ pc = "done"
    /\ streamState = "closed"
    /\ Len(stream) = Len(plannedWindows(initialStartTime, duration))
    /\ Len(stream) > 0 => stream[Len(stream)].endTime = duration

\* C23: for every total duration and resume offset, a run whose awaited
\* steps return and whose polling leaves the PROCESSING state goes from the
\* start of its loop to the record of its last window, the closed stream and
\* the end of the handler, whatever windows succeed, fail softly or fail hard.
C23_RunCompletes == (pc = "loop") ~> Completed

\* A completed run of three windows, one failed hard, one failed softly, one
\* transcribed.
C23_Witness ==
    /\ Completed
    /\ Len(stream) = 3
    /\ \E k \in 1..3 : stream[k].retryAfter /= {}
    /\ \E k \in 1..3 : stream[k].status = "error" /\ stream[k].retryAfter = {}
    /\ \E k \in 1..3 : stream[k].status = "success"

\* ------------------------------------------------------------ C24
\* The calls of handleSubmit that have sent their request and have neither
\* reached the end of the stream nor failed nor consumed an error record.
RunsInFlight == { c \in 1..Len(calls) : calls[c].pc \in {"fetch", "read"} }

\* C24: while any run of the page, fresh, continued by the button or retried
\* automatically, is between its request and the end of its stream or its
\* failure, isUploading is true, so that the buttons are disabled; and at
\* most one run is in flight.
C24_UploadingWhileInFlight ==
    /\ RunsInFlight /= {} => isUploading
    /\ Cardinality(RunsInFlight) <= 1

====
